---- MODULE Spec2Model ----
(***************************************************************************)
(* A model of reset-db (src/index.js with its configuration file,          *)
(* src/unnamed/part_000): a command-line script that connects to MongoDB,  *)
(* resolves the configured collections, then deletes and re-inserts their  *)
(* documents, or only counts them with --dry-run.                          *)
(*                                                                         *)
(* One action is one turn of the Node.js event loop: a macrotask (the      *)
(* module's top-level evaluation, the completion of a connect / import /   *)
(* database call, the user's answer to the prompt) together with every     *)
(* promise continuation (microtask) that runs before the next macrotask.   *)
(*                                                                         *)
(* JavaScript values are tagged: undefined is a value of its own, so that  *)
(* `??`, `!x`, `!==` and `&&` are computed as the language computes them.  *)
(***************************************************************************)
EXTENDS Integers, Sequences, FiniteSets, TLC

VARIABLES
    argv,                 \* process.argv[2]
    config,               \* the default export of config.js
    env,                  \* process.env, restricted to the recognised names
    pc,                   \* where the promise chain of run()/dryRun() stands
    promptShown,          \* rl.question has been called
    answer,               \* what the user typed at the prompt, once typed
    connectArg,           \* the argument mongoose.connect was called with
    importing,            \* collections whose import(path) is in flight
    standardCollections,  \* the array of resolved collections
    ops,                  \* per-collection database calls issued, in order
    completed,            \* database calls that have resolved
    exitStatus,           \* process.exit's argument, -1 while running
    debugLog,             \* what logDebugData has written
    world,                \* outcomes of the outside world, once observed
    firstRun              \* the summary of an earlier execution (SpecPair)

vars == <<argv, config, env, pc, promptShown, answer, connectArg, importing,
          standardCollections, ops, completed, exitStatus, debugLog, world,
          firstRun>>

----------------------------------------------------------------------------
(* Bounds of the model *)

\* the largest number of documents in a data array
MaxDocs == 1

CollectionNames == {"c1", "c2"}

----------------------------------------------------------------------------
(* JavaScript values *)

\* every value is tagged with its type; len is an array's length
Undefined == [type |-> "undefined", val |-> "", len |-> 0]
JsString(s) == [type |-> "string", val |-> s, len |-> 0]
JsArray(from, n) == [type |-> "array", val |-> from, len |-> n]
JsObject(v) == [type |-> "object", val |-> v, len |-> 0]

IsNullish(v) == v.type = "undefined"
\* !!v: arrays and objects are truthy (the empty array included), the empty
\* string and undefined are not
Truthy(v) == \/ v.type \in {"object", "array"}
             \/ v.type = "string" /\ v.val # ""
\* a !== b: an object or array is identical to itself only, and the objects
\* compared here are created by the expression that yields them
StrictNotEqual(a, b) ==
    \/ a.type \in {"object", "array"}
    \/ b.type \in {"object", "array"}
    \/ a # b
\* a ?? b
Coalesce(a, b) == IF IsNullish(a) THEN b ELSE a
\* !!(v?.length)
HasLength(v) == v.type = "array" /\ v.len > 0

\* String.prototype.toLowerCase on the strings of the model
ToLowerCase(s) ==
    CASE s = "Y" -> "y"
      [] s = "N" -> "n"
      [] OTHER -> s

----------------------------------------------------------------------------
(* Logging: src/index.js lines 23-89 *)

logLevels == [debug |-> 0, info |-> 1, warn |-> 2, error |-> 3, silent |-> 4]

\* logLevels[config.logLevel.toLowerCase()] ?? logLevels.info
logLevelOf(cfg) ==
    LET name == ToLowerCase(cfg.logLevel)
    IN  IF name \in DOMAIN logLevels THEN logLevels[name] ELSE logLevels.info

logLevel == logLevelOf(config)

\* what awaiting loadPromise(arg, options) yields.  arg is a promise that
\* "resolves" or "rejects", or a "function" returning a promise (the
\* modelsPromise of initialise, line 268).  Silent: arg is returned as it is, and
\* awaiting a function yields the function, never called.  Warn and error:
\* arg.catch is called, which a function does not have.  Debug and info:
\* ora's oraPromise, which calls arg when it is a function and awaits it.
loadPromise(level, arg) ==
    IF level = logLevels.silent
    THEN IF arg = "function" THEN "notCalled" ELSE arg
    ELSE IF level >= logLevels.warn
    THEN IF arg = "function" THEN "typeError" ELSE arg
    ELSE IF arg = "function" THEN "called" ELSE arg

----------------------------------------------------------------------------
(* validatePath: src/index.js lines 102-119.  A path is a sequence of       *)
(* characters, the empty sequence standing for an absent (or empty) path.  *)

\* path.lastIndexOf(ch), counted from 0, -1 when absent
RECURSIVE LastIndexOfFrom(_, _, _)
LastIndexOfFrom(path, ch, i) ==
    IF i = 0 THEN -1
    ELSE IF path[i] = ch THEN i - 1
    ELSE LastIndexOfFrom(path, ch, i - 1)

LastIndexOf(path, ch) == LastIndexOfFrom(path, ch, Len(path))

\* path.slice(from), from >= 0 counted from 0
Slice(path, from) == SubSeq(path, from + 1, Len(path))

allowedExtensions ==
    { <<"j", "s", "o", "n">>, <<"j", "s">>, <<"m", "j", "s">> }

validatePath(path) ==
    LET extensionIndex == LastIndexOf(path, ".")
        extension == Slice(path, extensionIndex + 1)
    IN  ~ (extensionIndex = -1 \/ extension \notin allowedExtensions)

----------------------------------------------------------------------------
(* evaluateCollectionValues: src/index.js lines 121-163 *)

\* getStandardValue with the flag dropped: the path's value wherever it is set
getStandardValuePathFirst(preferPath, configValue, pathValue) ==
    Coalesce(pathValue, configValue)

\* preferPath ? pathValue ?? configValue : configValue
getStandardValue(preferPath, configValue, pathValue) ==
    IF preferPath THEN Coalesce(pathValue, configValue) ELSE configValue

\* importedValues.default?.data ?? importedValues.default ?? importedValues.data
\* A module namespace m has a default export (an array, an object with the
\* fields defaultData / defaultModel / defaultSchema, or none) and the named
\* exports data / model / schema.
PathData(m) ==
    CASE m.defaultKind = "object" ->
             Coalesce(m.defaultData, JsObject("defaultExport"))
      [] m.defaultKind = "array" -> m.defaultData
      [] OTHER -> m.data

\* importedValues.default?.model ?? importedValues.model
PathModel(m) ==
    IF m.defaultKind = "object" THEN Coalesce(m.defaultModel, m.model)
    ELSE m.model

\* importedValues.default?.schema ?? importedValues.schema
PathSchema(m) ==
    IF m.defaultKind = "object" THEN Coalesce(m.defaultSchema, m.schema)
    ELSE m.schema

\* The result of the promise evaluateCollectionValues returns, for the entry
\* `coll` of config.collections and the outcome `imp` of import(path):
\*   "throws": without a path importedValues stays undefined, and reading
\*             importedValues.default throws a TypeError (line 149);
\*   "null":   the extension is refused or the import failed;
\*   "values": the three standard values.
evaluateCollectionValues(preferPath, coll, imp) ==
    IF coll.path = <<>>
    THEN [result |-> "throws", standardData |-> Undefined,
          standardModel |-> Undefined, standardSchema |-> Undefined]
    ELSE IF ~ validatePath(coll.path) \/ imp.status = "failed"
    THEN [result |-> "null", standardData |-> Undefined,
          standardModel |-> Undefined, standardSchema |-> Undefined]
    ELSE [result |-> "values",
          standardData |->
              getStandardValue(preferPath, coll.data, PathData(imp.module)),
          standardModel |->
              getStandardValue(preferPath, coll.model, PathModel(imp.module)),
          standardSchema |->
              getStandardValue(preferPath, coll.schema, PathSchema(imp.module))]

----------------------------------------------------------------------------
(* The URI checks of initialise: src/index.js lines 167-208 *)

EnvOrder == <<"MONGO_URI", "MONGODB_URI", "mongoUri", "DB_URI", "DATABASE_URI">>
EnvNames == { EnvOrder[i] : i \in DOMAIN EnvOrder }

\* the Set of the recognised NAMES that are in process.env
mongoUriValues(e) == { n \in EnvNames : ~ IsNullish(e[n]) }

\* [...].find((name) => name in process.env): the first such name, or undefined
FirstEnvName(e) ==
    IF mongoUriValues(e) = {} THEN Undefined
    ELSE LET i == CHOOSE k \in DOMAIN EnvOrder :
                     /\ EnvOrder[k] \in mongoUriValues(e)
                     /\ \A j \in 1..(k - 1) : EnvOrder[j] \notin mongoUriValues(e)
         IN  JsString(EnvOrder[i])

\* mongoUriValues.values().next(): an iterator result {value, done}, a new
\* object at every call
IteratorNext(e) == JsObject(FirstEnvName(e).val)

\* "noUri" and "mismatch" are the two throws of lines 173-190
uriCheck(cfg, e) ==
    LET size == Cardinality(mongoUriValues(e))
    IN  IF ~ Truthy(cfg.mongoUri) /\ size = 0 THEN "noUri"
        ELSE IF \/ size > 1
                \/ size # 0 /\ StrictNotEqual(cfg.mongoUri, IteratorNext(e))
        THEN "mismatch"
        ELSE "ok"

\* config.mongoUri ??= mongoUriValues.values().next()
assignedMongoUri(cfg, e) == Coalesce(cfg.mongoUri, IteratorNext(e))

\* config.mongoUri ?? process.env[[...].find((name) => name in process.env)]
connectArgument(cfg, e) ==
    Coalesce(assignedMongoUri(cfg, e),
             IF IsNullish(FirstEnvName(e)) THEN Undefined
             ELSE e[FirstEnvName(e).val])

----------------------------------------------------------------------------
(* logDebugData: src/index.js lines 93-100 *)

\* config[name], undefined when config has no such property
Property(cfg, name) ==
    IF name \notin DOMAIN cfg THEN Undefined
    ELSE IF name = "mongoUri" THEN cfg.mongoUri
    ELSE IF name = "logLevel" THEN JsString(cfg.logLevel)
    ELSE IF name = "collections" THEN JsObject("collections")
    ELSE JsString(IF cfg[name] THEN "true" ELSE "false")

\* JSON.stringify of the properties `names` of config: the pairs of a name and
\* its printed value; properties that are undefined are left out
Stringify(cfg, names) ==
    { <<n, Property(cfg, n).val>> :
        n \in { k \in names : ~ IsNullish(Property(cfg, k)) } }

\* const { dbUri, ...printableConfig } = config
printableConfig(cfg) == DOMAIN cfg \ {"dbUri"}

\* the lines logDebugData writes: none above the debug level
logDebugData(cfg, collections) ==
    IF logLevelOf(cfg) > logLevels.debug THEN {}
    ELSE { [label |-> "Log Level", text |-> {<<"logLevel", "0">>}],
           [label |-> "Config",
            text |-> Stringify(cfg,
                        IF Truthy(Property(cfg, "insecureDebugLog"))
                        THEN printableConfig(cfg) ELSE DOMAIN cfg)],
           [label |-> "Standard Collections",
            text |-> { <<collections[i].name, "data">> :
                          i \in DOMAIN collections }] }

----------------------------------------------------------------------------
(* The inputs: the command line, config.js, the environment, and what the   *)
(* outside world (the database, the imported files, the user) answers.      *)

Uris == {"mongodb://a", "mongodb://b"}

NoPath == <<>>
Paths ==
    { NoPath,
      <<"d", ".", "m", "j", "s">>,
      <<"d", ".", "c", "j", "s">>,
      <<"j", "s">> }

DataArrays(from) == { JsArray(from, n) : n \in 0..MaxDocs }

\* an entry of config.collections
CollectionEntries ==
    [ data   : {Undefined} \cup DataArrays("config"),
      path   : Paths,
      schema : {Undefined, JsObject("configSchema")},
      model  : {Undefined, JsString("configModel")} ]

\* the entry of the shipped config.js (lines 12-28)
ShippedEntry ==
    [ data   |-> JsArray("config", MaxDocs),
      path   |-> <<"d", ".", "j", "s", "o", "n">>,
      schema |-> JsObject("configSchema"),
      model  |-> JsString("configModel") ]

\* the entries a second collection is given
SecondEntries ==
    { ShippedEntry,
      [ShippedEntry EXCEPT !.path = NoPath],
      [ShippedEntry EXCEPT !.path = NoPath, !.data = Undefined],
      [ShippedEntry EXCEPT !.path = <<"d", ".", "c", "j", "s">>] }

CollectionMaps ==
    [ {"c1"} -> CollectionEntries ]
    \cup { [ c \in CollectionNames |-> IF c = "c1" THEN first ELSE second ] :
             first \in CollectionEntries, second \in SecondEntries }

LogLevelNames == {"debug", "info", "warn", "error", "silent"}

ConfigsWith(uris, levels, flags, maps) ==
    [ noPrompt          : BOOLEAN,
      preferPath        : flags,
      logLevel          : levels,
      mongoUri          : uris,
      sensitiveDebugLog : flags,
      collections       : maps ]

NoEnv == [ n \in EnvNames |-> Undefined ]
Envs == [ EnvNames -> {Undefined} \cup { JsString(u) : u \in Uris } ]

\* the module namespaces import(path) may yield
NoExports ==
    [ defaultKind |-> "undefined", defaultData |-> Undefined,
      defaultModel |-> Undefined, defaultSchema |-> Undefined,
      data |-> Undefined, model |-> Undefined, schema |-> Undefined ]

Modules ==
    { [NoExports EXCEPT !.defaultKind = "object", !.defaultData = d,
                        !.defaultModel = m, !.defaultSchema = sch] :
        d \in {Undefined, JsArray("path", MaxDocs)},
        m \in {Undefined, JsString("pathModel")},
        sch \in {Undefined, JsObject("pathSchema")} }
    \cup { [NoExports EXCEPT !.defaultKind = "array", !.defaultData = d] :
             d \in DataArrays("path") }
    \cup { NoExports,
           [NoExports EXCEPT !.data = JsArray("path", MaxDocs),
                             !.model = JsString("pathModel"),
                             !.schema = JsObject("pathSchema")] }

\* what import(path) may yield: a module, or a failure
ImportOutcomes ==
    { [status |-> "failed", module |-> NoExports] }
    \cup { [status |-> "loaded", module |-> m] : m \in Modules }

NotImported == [status |-> "unknown", module |-> NoExports]

DbOps == {"countDocuments", "deleteMany", "insertMany"}

\* what the user may type at the prompt
Answers == {"y", "Y", "n", ""}

\* nothing of the outside world has been observed
UnknownWorld ==
    [ connect |-> "unknown",
      imports |-> [ c \in CollectionNames |-> NotImported ],
      db      |-> [ k \in DbOps \X CollectionNames |-> "unknown" ] ]

\* an outcome already observed is the outcome observed again
Outcomes(seen) == IF seen = "unknown" THEN {"ok", "failed"} ELSE {seen}
ImportsOf(seen) == IF seen.status = "unknown" THEN ImportOutcomes ELSE {seen}

NoRun == [ status |-> "none", resolved |-> {}, connected |-> FALSE,
           issued |-> {}, exit |-> -1, answer |-> Undefined ]

\* The inputs vary in the collections and the log level, with the URI supplied
\* by config.js alone as in the shipped config.js (line 9), or in the sources
\* of the URI, with the shipped collection.
Init ==
    /\ argv \in {"--dry-run", ""}
    /\ \/ /\ config \in ConfigsWith({JsString("mongodb://a")}, LogLevelNames,
                                    BOOLEAN, CollectionMaps)
          /\ config.sensitiveDebugLog = FALSE
          /\ env = NoEnv
       \/ /\ config \in ConfigsWith({Undefined} \cup { JsString(u) : u \in Uris },
                                    {"debug", "info"}, BOOLEAN,
                                    {[ c \in {"c1"} |-> ShippedEntry ]})
          /\ config.preferPath = TRUE
          /\ env \in Envs
    /\ pc = "start"
    /\ promptShown = FALSE
    /\ answer = Undefined
    /\ connectArg = Undefined
    /\ importing = {}
    /\ standardCollections = <<>>
    /\ ops = <<>>
    /\ completed = {}
    /\ exitStatus = -1
    /\ debugLog = {}
    /\ world = UnknownWorld
    /\ firstRun = NoRun

----------------------------------------------------------------------------
(* The promise chains of startRun / startDryRun: src/index.js lines 165-390 *)

isDryRun == argv = "--dry-run"

\* the database calls issued on every element of the array, in its order
Issue(op, collections) ==
    [ i \in DOMAIN collections |->
        [ op   |-> op,
          name |-> collections[i].name,
          data |-> IF op = "insertMany" THEN collections[i].data
                   ELSE Undefined ] ]

Names(collections) == { collections[i].name : i \in DOMAIN collections }

\* loadPromise(run(), ...).then(() => process.exit(0)).catch(() => process.exit(1))
\* (lines 357-363 and 380-386), run() / dryRun() having settled as `outcome`
\* behind its own loadPromise of lines 283, 290, 327, 334 or 344
exitCode(outcome) ==
    IF loadPromise(logLevel, loadPromise(logLevel, outcome)) = "resolves"
    THEN 0 ELSE 1

Settle(outcome) ==
    /\ pc' = "exited"
    /\ exitStatus' = exitCode(outcome)

\* modelStep with a null result taken for {error: true}: the collection is
\* left out and the others go on
modelStepSkippingNull(coll) ==
    IF ~ HasLength(coll.data) /\ coll.path = NoPath THEN "skipped"
    ELSE IF coll.path = NoPath \/ ~ validatePath(coll.path) THEN "error"
    ELSE "import"

\* lines 223-251, up to the first await of a callback of modelsPromise:
\*   "skipped": neither data nor path, logged and left out;
\*   "error":   evaluateCollectionValues rejected, caught as {error: true};
\*   "crash":   evaluateCollectionValues resolved with null, which the
\*              destructuring of line 235 cannot take: the callback rejects;
\*   "import":  import(path) is in flight.
modelStep(coll) ==
    IF ~ HasLength(coll.data) /\ coll.path = NoPath THEN "skipped"
    ELSE LET r == evaluateCollectionValues(config.preferPath, coll, NotImported)
         IN  CASE loadPromise(logLevel, IF r.result = "throws" THEN "rejects"
                                        ELSE "resolves") = "rejects" -> "error"
               [] r.result = "null" -> "crash"
               [] OTHER -> "import"

\* lines 253-264: the array after the callback of `name` has its values.  A
\* model name stands for the name given for this collection: the entries are
\* taken to name different models, so that mongoose.model does not throw.
pushCollection(collections, name, r) ==
    IF ~ (Truthy(r.standardData) /\ Truthy(r.standardSchema)
          /\ Truthy(r.standardModel))
    THEN collections
    ELSE Append(collections,
                [ name  |-> name,
                  model |-> [ modelName  |-> r.standardModel,
                              schema     |-> r.standardSchema,
                              collection |-> name ],
                  data  |-> r.standardData ])

\* AfterModels with startDryRun going the way of startRun
AfterModelsDeleting(collections) ==
    /\ debugLog' = logDebugData(config, collections)
    /\ IF Len(collections) = 0
       THEN /\ pc' = "exited"
            /\ exitStatus' = 1
            /\ ops' = ops
       ELSE /\ pc' = "deleting"
            /\ ops' = ops \o [ i \in DOMAIN collections |->
                                 [ op |-> "deleteMany",
                                   name |-> collections[i].name,
                                   data |-> Undefined ] ]
            /\ exitStatus' = exitStatus

\* lines 274-279, and then lines 290-298 or 334-335: modelsPromise is over with
\* the array `collections`
AfterModels(collections) ==
    /\ debugLog' = logDebugData(config, collections)
    /\ IF Len(collections) = 0
       THEN /\ Settle("rejects")
            /\ ops' = ops
       ELSE /\ pc' = IF isDryRun THEN "counting" ELSE "deleting"
            /\ ops' = ops \o Issue(IF isDryRun THEN "countDocuments"
                                    ELSE "deleteMany", collections)
            /\ exitStatus' = exitStatus

\* initialise up to its first await (lines 165-214)
InitialiseStart ==
    IF uriCheck(config, env) # "ok"
    THEN /\ Settle("rejects")
         /\ UNCHANGED <<config, connectArg>>
    ELSE /\ config' = [config EXCEPT !.mongoUri = assignedMongoUri(config, env)]
         /\ connectArg' = connectArgument(config, env)
         /\ pc' = "connecting"
         /\ exitStatus' = exitStatus

\* startRun (lines 366-387): the prompt is shown unless config.noPrompt, and
\* run() is called in the same turn
startRun ==
    /\ pc = "start"
    /\ ~ isDryRun
    /\ promptShown' = ~ config.noPrompt
    /\ InitialiseStart
    /\ UNCHANGED <<argv, env, answer, importing, standardCollections, ops,
                   completed, debugLog, world, firstRun>>

\* startDryRun (lines 356-364)
startDryRun ==
    /\ pc = "start"
    /\ isDryRun
    /\ InitialiseStart
    /\ UNCHANGED <<argv, env, promptShown, answer, importing,
                   standardCollections, ops, completed, debugLog, world,
                   firstRun>>

\* the callback of rl.question (lines 371-377)
answerPrompt ==
    /\ promptShown
    /\ IsNullish(answer)
    /\ pc # "exited"
    /\ \E a \in Answers :
          /\ answer' = JsString(a)
          /\ IF ToLowerCase(a) # "y"
             THEN pc' = "exited" /\ exitStatus' = 0
             ELSE UNCHANGED <<pc, exitStatus>>
    /\ UNCHANGED <<argv, config, env, promptShown, connectArg, importing,
                   standardCollections, ops, completed, debugLog, world,
                   firstRun>>

\* mongoose.connect settles (lines 196-214), and modelsPromise is handed to
\* loadPromise (lines 217-272)
connectSettles ==
    /\ pc = "connecting"
    /\ \E result \in Outcomes(world.connect) :
          /\ world' = [world EXCEPT !.connect = result]
          /\ IF loadPromise(logLevel, IF result = "ok" THEN "resolves"
                                      ELSE "rejects") = "rejects"
             THEN /\ Settle("rejects")
                  /\ UNCHANGED <<importing, ops, debugLog>>
             ELSE LET called == loadPromise(logLevel, "function")
                      names == DOMAIN config.collections
                      step(c) == modelStep(config.collections[c])
                  IN  CASE called = "typeError"
                             \/ (called = "called"
                                 /\ \E c \in names : step(c) = "crash") ->
                                /\ Settle("rejects")
                                /\ UNCHANGED <<importing, ops, debugLog>>
                        [] called = "called"
                             /\ (\A c \in names : step(c) # "crash")
                             /\ (\E c \in names : step(c) = "import") ->
                                /\ importing' =
                                       { c \in names : step(c) = "import" }
                                /\ pc' = "importing"
                                /\ UNCHANGED <<ops, debugLog, exitStatus>>
                        [] OTHER ->
                                /\ AfterModels(standardCollections)
                                /\ UNCHANGED importing
    /\ UNCHANGED <<argv, config, env, promptShown, answer, connectArg,
                   standardCollections, completed, firstRun>>

\* import(path) settles for one collection (lines 138-162, 235-264); with the
\* last of them modelsPromise resolves
importSettles(c) ==
    /\ pc = "importing"
    /\ c \in importing
    /\ \E imp \in ImportsOf(world.imports[c]) :
          LET r == evaluateCollectionValues(config.preferPath,
                                            config.collections[c], imp)
              collections == pushCollection(standardCollections, c, r)
          IN  /\ world' = [world EXCEPT !.imports[c] = imp]
              /\ importing' = importing \ {c}
              /\ IF r.result = "null"
                 THEN /\ Settle("rejects")
                      /\ UNCHANGED <<standardCollections, ops, debugLog>>
                 ELSE /\ standardCollections' = collections
                      /\ IF importing' = {}
                         THEN AfterModels(collections)
                         ELSE UNCHANGED <<pc, ops, debugLog, exitStatus>>
    /\ UNCHANGED <<argv, config, env, promptShown, answer, connectArg,
                   completed, firstRun>>

Issued(op) == { ops[i].name : i \in { j \in DOMAIN ops : ops[j].op = op } }
Completed(op) == { k[2] : k \in { x \in completed : x[1] = op } }

\* dbSettles with the whole resolved by the first resolution (Promise.any)
dbSettlesAtFirst(op, c, all, none) ==
    /\ c \in Issued(op) \ Completed(op)
    /\ \E result \in Outcomes(world.db[<<op, c>>]) :
          /\ world' = [world EXCEPT !.db[<<op, c>>] = result]
          /\ IF result = "failed"
             THEN /\ pc' = "exited"
                  /\ exitStatus' = 1
                  /\ UNCHANGED <<completed, ops>>
             ELSE /\ completed' = completed \cup {<<op, c>>}
                  /\ IF Completed(op) = {} THEN all ELSE none

\* one call of a Promise.all over the collections settles: a rejection
\* rejects the whole, the last resolution resolves it
dbSettles(op, c, all, none) ==
    /\ c \in Issued(op) \ Completed(op)
    /\ \E result \in Outcomes(world.db[<<op, c>>]) :
          /\ world' = [world EXCEPT !.db[<<op, c>>] = result]
          /\ IF result = "failed"
             THEN /\ Settle("rejects")
                  /\ UNCHANGED <<completed, ops>>
             ELSE /\ completed' = completed \cup {<<op, c>>}
                  /\ IF Completed(op) \cup {c} = Issued(op)
                     THEN all
                     ELSE none

\* a deleteMany settles (lines 334-341); after the last, the insertMany calls
\* are issued (lines 344-347)
deleteSettles(c) ==
    /\ pc = "deleting"
    /\ dbSettles("deleteMany", c,
                 /\ pc' = "inserting"
                 /\ ops' = ops \o Issue("insertMany", standardCollections)
                 /\ exitStatus' = exitStatus,
                 UNCHANGED <<pc, ops, exitStatus>>)
    /\ UNCHANGED <<argv, config, env, promptShown, answer, connectArg,
                   importing, standardCollections, debugLog, firstRun>>

\* an insertMany settles (lines 344-353); after the last, run() resolves
insertSettles(c) ==
    /\ pc = "inserting"
    /\ dbSettles("insertMany", c,
                 Settle("resolves") /\ ops' = ops,
                 UNCHANGED <<pc, ops, exitStatus>>)
    /\ UNCHANGED <<argv, config, env, promptShown, answer, connectArg,
                   importing, standardCollections, debugLog, firstRun>>

\* a countDocuments settles (lines 290-322); after the last, dryRun() resolves
countSettles(c) ==
    /\ pc = "counting"
    /\ dbSettles("countDocuments", c,
                 Settle("resolves") /\ ops' = ops,
                 UNCHANGED <<pc, ops, exitStatus>>)
    /\ UNCHANGED <<argv, config, env, promptShown, answer, connectArg,
                   importing, standardCollections, debugLog, firstRun>>

Next ==
    \/ startRun
    \/ startDryRun
    \/ answerPrompt
    \/ connectSettles
    \/ \E c \in CollectionNames : importSettles(c)
    \/ \E c \in CollectionNames : deleteSettles(c)
    \/ \E c \in CollectionNames : insertSettles(c)
    \/ \E c \in CollectionNames : countSettles(c)

Spec == Init /\ [][Next]_vars

----------------------------------------------------------------------------
(* Two executions that differ in config.logLevel alone.  After an execution *)
(* has exited, the program is started again with another log level and the *)
(* same command line, configuration and environment; whatever the outside  *)
(* world answered in the first execution it answers again (world).         *)

\* the user declined at the prompt, which exits with status 0 (line 375)
Declined == ~ IsNullish(answer) /\ ToLowerCase(answer.val) # "y"

\* what an execution did: the collections it resolved and used, the database
\* calls it issued, and its exit status
Summary ==
    [ status    |-> "done",
      resolved  |-> IF ops = <<>> THEN {} ELSE Names(standardCollections),
      connected |-> ~ IsNullish(connectArg),
      issued    |-> { <<ops[i].op, ops[i].name, ops[i].data>> : i \in DOMAIN ops },
      exit      |-> exitStatus,
      answer    |-> answer ]

rerun ==
    /\ pc = "exited"
    /\ firstRun.status = "none"
    /\ \E level \in LogLevelNames \ {config.logLevel} :
          config' = [config EXCEPT !.logLevel = level]
    /\ firstRun' = Summary
    /\ pc' = "start"
    /\ promptShown' = FALSE
    /\ answer' = Undefined
    /\ connectArg' = Undefined
    /\ importing' = {}
    /\ standardCollections' = <<>>
    /\ ops' = <<>>
    /\ completed' = {}
    /\ exitStatus' = -1
    /\ debugLog' = {}
    /\ UNCHANGED <<argv, env, world>>

InitPair ==
    /\ Init
    /\ env = NoEnv
    /\ DOMAIN config.collections = {"c1"}

NextPair == Next \/ rerun

SpecPair == InitPair /\ [][NextPair]_vars

----------------------------------------------------------------------------
(* The properties *)

Configured == DOMAIN config.collections
Entry(c) == config.collections[c]
Mutations == Issued("deleteMany") \cup Issued("insertMany")
AnsweredYes == ~ IsNullish(answer) /\ ToLowerCase(answer.val) = "y"
\* the process has exited, and not because the user declined at the prompt
ExitedByChain == pc = "exited" /\ ~ Declined

\* neither non-empty inline data nor a path
MissingDataAndPath(e) == ~ HasLength(e.data) /\ e.path = NoPath
\* a path that does not end in .json, .js or .mjs
BadExtension(e) ==
    /\ e.path # NoPath
    /\ ~ \E k \in 1..Len(e.path) :
            /\ e.path[k] = "."
            /\ SubSeq(e.path, k + 1, Len(e.path)) \in allowedExtensions
Invalid(e) == MissingDataAndPath(e) \/ BadExtension(e)

\* the positions of the calls of `op` on collection c
Calls(op, c) == { i \in DOMAIN ops : ops[i].op = op /\ ops[i].name = c }

\* C1: in a destructive run with config.noPrompt false, no deleteMany and no
\* insertMany is issued unless the user has answered the prompt with y or Y
\* (so none before the answer, and none ever when the answer is another).
PromptGatesMutation ==
    (~ isDryRun /\ ~ config.noPrompt /\ Mutations # {}) => AnsweredYes

\* C2: with --dry-run the prompt is never shown and every database call
\* issued on a collection is a countDocuments: no deleteMany, no insertMany.
DryRunIssuesOnlyCounts ==
    isDryRun =>
        /\ ~ promptShown
        /\ \A i \in DOMAIN ops : ops[i].op = "countDocuments"

\* C2 witness: a dry run has counted two collections and exited with 0
DryRunCounted ==
    /\ isDryRun
    /\ pc = "exited"
    /\ exitStatus = 0
    /\ Completed("countDocuments") = CollectionNames

\* C3 as stated: in a destructive run with an invalid collection (no data and
\* no path, or a refused extension) no deleteMany or insertMany is issued on
\* any collection, and the process does not exit with status 0 (unless the
\* user declined at the prompt).
InvalidCollectionIsFatal ==
    (~ isDryRun /\ \E c \in Configured : Invalid(Entry(c))) =>
        /\ Mutations = {}
        /\ ExitedByChain => exitStatus # 0

\* C3 amended: in a destructive run an invalid collection is never resolved
\* and receives no deleteMany or insertMany; a refused extension, or every
\* collection being invalid, is fatal: no deleteMany or insertMany on any
\* collection, and no exit with status 0 unless the user declined.
InvalidCollectionIsLeftOut ==
    ~ isDryRun =>
        /\ \A c \in Configured :
              Invalid(Entry(c)) =>
                  c \notin Mutations /\ c \notin Names(standardCollections)
        /\ ( \/ \E c \in Configured : BadExtension(Entry(c))
             \/ \A c \in Configured : Invalid(Entry(c)) ) =>
              /\ Mutations = {}
              /\ ExitedByChain => exitStatus # 0

\* C3 witness: c1 has neither data nor path, and c2 has been deleted and
\* re-inserted in a run that exited with 0
SkippedBesideSeeded ==
    /\ ~ isDryRun
    /\ Configured = CollectionNames
    /\ MissingDataAndPath(Entry("c1"))
    /\ Completed("insertMany") = {"c2"}
    /\ ExitedByChain
    /\ exitStatus = 0

\* C4: in a destructive run no insertMany is issued until deleteMany has
\* resolved on every resolved collection; once a deleteMany has failed no
\* insertMany has been issued and the process has exited with a non-zero
\* status; and when the run has exited with 0 after its work, every resolved
\* collection has had exactly one deleteMany and then exactly one insertMany.
DeleteThenInsertBarrier ==
    ~ isDryRun =>
        /\ Issued("insertMany") # {} =>
              Completed("deleteMany") = Names(standardCollections)
        /\ (\E c \in CollectionNames : world.db[<<"deleteMany", c>>] = "failed") =>
              /\ Issued("insertMany") = {}
              /\ pc = "exited"
              /\ exitStatus # 0
        /\ (ExitedByChain /\ exitStatus = 0) =>
              \A c \in Names(standardCollections) :
                  /\ Cardinality(Calls("deleteMany", c)) = 1
                  /\ Cardinality(Calls("insertMany", c)) = 1
                  /\ \A i \in Calls("deleteMany", c) :
                        \A j \in Calls("insertMany", c) : i < j

\* C4 witness: a destructive run over two resolved collections exited with 0
TwoCollectionsSeeded ==
    /\ ~ isDryRun
    /\ ExitedByChain
    /\ exitStatus = 0
    /\ Names(standardCollections) = CollectionNames
    /\ Completed("insertMany") = CollectionNames

\* the URIs supplied by config.mongoUri and the environment
SuppliedUris ==
    (IF Truthy(config.mongoUri) THEN {config.mongoUri} ELSE {})
    \cup { env[n] : n \in mongoUriValues(env) }

\* C5: connect is called, with the supplied value, exactly when at least one
\* source supplies a URI and all the supplied values are equal.
UriFromAnySource ==
    pc # "start" =>
        /\ ~ IsNullish(connectArg) <=> Cardinality(SuppliedUris) = 1
        /\ ~ IsNullish(connectArg) => connectArg \in SuppliedUris

\* C6: when a destructive run has exited with 0 after its work, a collection
\* with non-empty inline data, a schema and a model name but no path has been
\* resolved, deleted and inserted with exactly its inline data.
InlineDataAloneIsSeeded ==
    (~ isDryRun /\ ExitedByChain /\ exitStatus = 0) =>
        \A c \in Configured :
            ( /\ HasLength(Entry(c).data)
              /\ Truthy(Entry(c).schema)
              /\ Truthy(Entry(c).model)
              /\ Entry(c).path = NoPath ) =>
                /\ c \in Names(standardCollections)
                /\ Calls("deleteMany", c) # {}
                /\ \E i \in Calls("insertMany", c) : ops[i].data = Entry(c).data

\* collection c has non-empty inline data and a path whose file has loaded
\* and supplies a data array, and the schema and the model name are supplied
\* where preferPath looks for them
BothDataAndPath(c) ==
    LET e == Entry(c)
        m == world.imports[c].module
    IN  /\ world.imports[c].status = "loaded"
        /\ HasLength(e.data)
        /\ PathData(m).type = "array"
        /\ Truthy(e.schema) \/ (config.preferPath /\ Truthy(PathSchema(m)))
        /\ Truthy(e.model) \/ (config.preferPath /\ Truthy(PathModel(m)))

SelectedData(c) ==
    IF config.preferPath THEN PathData(world.imports[c].module)
    ELSE Entry(c).data

\* C7: a collection with both inline data and a loaded path that supplies
\* data is resolved with the path's data when preferPath is true and with the
\* inline data when it is false, and that is the data of every insertMany
\* issued on it (and what a dry run counts).
PreferPathSelectsData ==
    \A c \in Configured :
        BothDataAndPath(c) =>
            /\ \E i \in DOMAIN standardCollections :
                  /\ standardCollections[i].name = c
                  /\ standardCollections[i].data = SelectedData(c)
            /\ \A i \in Calls("insertMany", c) : ops[i].data = SelectedData(c)

\* C7 witness: with preferPath false the inline data of such a collection has
\* been handed to insertMany
InlineDataPreferred ==
    /\ ~ config.preferPath
    /\ BothDataAndPath("c1")
    /\ \E i \in Calls("insertMany", "c1") : ops[i].data.val = "config"

\* C8: a collection whose inline configuration and loaded file supply data
\* and a schema but no model name is resolved, its model named after it.
ModelNameDefaultsToCollection ==
    \A c \in Configured :
        LET e == Entry(c)
            m == world.imports[c].module
        IN  ( /\ world.imports[c].status = "loaded"
              /\ HasLength(e.data) /\ PathData(m).type = "array"
              /\ Truthy(e.schema) /\ Truthy(PathSchema(m))
              /\ IsNullish(e.model) /\ IsNullish(PathModel(m)) ) =>
                \E i \in DOMAIN standardCollections :
                    /\ standardCollections[i].name = c
                    /\ standardCollections[i].model.modelName = JsString(c)

\* C9: with sensitiveDebugLog false nothing logDebugData writes contains the
\* value of config.mongoUri.
SensitiveLogIsGated ==
    (~ config.sensitiveDebugLog /\ Truthy(config.mongoUri)) =>
        \A line \in debugLog :
            \A t \in line.text : t[2] # config.mongoUri.val

\* C10: two executions that differ in config.logLevel alone, with the same
\* prompt answer (none, or yes) and the same answers of the outside world,
\* resolve the same collections, issue the same database calls and exit with
\* the same status.
LogLevelOnlyChangesLogging ==
    ( /\ firstRun.status = "done"
      /\ pc = "exited"
      /\ firstRun.answer = answer
      /\ ~ Declined ) =>
        /\ Summary.resolved = firstRun.resolved
        /\ Summary.connected = firstRun.connected
        /\ Summary.issued = firstRun.issued
        /\ Summary.exit = firstRun.exit

====
